---- MODULE Spec2Model ----
(***************************************************************************)
(* Model of BaseBlockwiseQuantization                                      *)
(* (llmcompress/algorithm/quantization/base_blockwise_quantization.py).    *)
(*                                                                         *)
(* Four engines of the class are modelled, each with its own               *)
(* specification over the shared variables:                                *)
(*   SpecScale  apply_scale / apply_shift and the four fusion routines     *)
(*   SpecRot    rotate_pre_layers / rotate_post_layers                     *)
(*   SpecClip   auto_clip_layer (the clip-range grid search)               *)
(*   SpecMix    alloc_bits (the mixed-bit map)                             *)
(*                                                                         *)
(* Tensor entries are exact rationals <<n, d>> in lowest terms with d > 0, *)
(* extended by the IEEE-754 special values the code can produce:           *)
(* <<1, 0>> = +inf, <<-1, 0>> = -inf, <<0, 0>> = NaN.  Rounding of finite  *)
(* results is not modelled: equalities the model proves are equalities of  *)
(* the exact values, which the float code meets up to rounding.            *)
(***************************************************************************)
EXTENDS Integers, Sequences, FiniteSets, TLC

VARIABLES
    \* ---- equivalent-transform engine (apply_scale / apply_shift)
    prev_op,      \* subset['prev_op']: the list of preceding ops
    layers,       \* subset['layers']: the list of following linear layers
    num_heads,    \* model.get_num_attention_heads() / config n_head
    use_shift,    \* self.use_shift
    has_bias,     \* model.has_bias()
    trace,        \* history: one record per call, with the state before it
    \* ---- rotation engine
    rot_layer,    \* the layer handed to rotate_pre_layers / rotate_post_layers
    online_rotate,\* self.online_rotate
    rot_trace,    \* history of rotation calls
    \* ---- clip search (auto_clip_layer)
    clip,         \* the locals of one auto_clip_layer call
    \* ---- mixed-bit allocation (alloc_bits)
    mix,          \* quantizer_mix_bits, mix_bits_map and the loop position
    \* ---- construction and the block pipeline (set_quant_config, block_opt)
    run,          \* the configuration, the blocks and the pipeline position
    \* ---- clipping of one block on several workers (auto_clip)
    dist,         \* the workers, their layers and the collective in flight
    \* ---- online rotation wrappers (replace_rotate_linears)
    rot_wrap      \* the block's modules and the loop position

scaleVars == <<prev_op, layers, num_heads, use_shift, has_bias, trace>>
rotVars == <<rot_layer, online_rotate, rot_trace>>
clipVars == <<clip>>
mixVars == <<mix>>
laterVars == <<run, dist, rot_wrap>>
vars == <<prev_op, layers, num_heads, use_shift, has_bias, trace,
          rot_layer, online_rotate, rot_trace, clip, mix, run, dist, rot_wrap>>

-----------------------------------------------------------------------------
(* Tensor entries.                                                         *)

Abs(n) == IF n < 0 THEN -n ELSE n

Sign(n) == IF n < 0 THEN -1 ELSE IF n > 0 THEN 1 ELSE 0

RECURSIVE GCD(_, _)
GCD(a, b) == IF b = 0 THEN a ELSE GCD(b, a % b)

\* n/d in lowest terms, d > 0; a zero denominator gives +-inf or NaN.
Norm(n, d) ==
    IF d = 0 THEN <<Sign(n), 0>>
    ELSE LET g == GCD(Abs(n), Abs(d))
             s == IF d < 0 THEN -1 ELSE 1
         IN  <<(s * n) \div g, (s * d) \div g>>

R(n) == <<n, 1>>
Zero == <<0, 1>>
One == <<1, 1>>
PosInf == <<1, 0>>
NegInf == <<-1, 0>>
NaN == <<0, 0>>

IsNaN(a) == a = NaN
IsFinite(a) == a[2] # 0

Neg(a) == <<-a[1], a[2]>>

Recip(a) == IF a[1] < 0 THEN <<-a[2], -a[1]>> ELSE <<a[2], a[1]>>

Mul(a, b) == Norm(a[1] * b[1], a[2] * b[2])

Div(a, b) == Mul(a, Recip(b))

Add(a, b) ==
    IF IsNaN(a) \/ IsNaN(b) THEN NaN
    ELSE IF a[2] = 0 /\ b[2] = 0 THEN (IF a = b THEN a ELSE NaN)
    ELSE IF a[2] = 0 THEN a
    ELSE IF b[2] = 0 THEN b
    ELSE Norm(a[1] * b[2] + b[1] * a[2], a[2] * b[2])

Sub(a, b) == Add(a, Neg(b))

\* a < b on finite entries
Less(a, b) == a[1] * b[2] < b[1] * a[2]

RECURSIVE SumSeq(_)
SumSeq(s) == IF s = <<>> THEN Zero ELSE Add(s[1], SumSeq(Tail(s)))

Dot(u, v) == SumSeq([k \in 1..Len(u) |-> Mul(u[k], v[k])])

\* weight @ v
MatVec(W, v) == [i \in 1..Len(W) |-> Dot(W[i], v)]

VecSub(u, v) == [k \in 1..Len(u) |-> Sub(u[k], v[k])]

VecAdd(u, v) == [k \in 1..Len(u) |-> Add(u[k], v[k])]

\* Mutant of VecDiv: the bias updated as in the shift routines, by sub_.
VecDivAsSub(u, v) == [k \in 1..Len(u) |-> Sub(u[k], v[k])]

VecDiv(u, v) == [k \in 1..Len(u) |-> Div(u[k], v[k])]

VecHasNaN(v) == \E k \in 1..Len(v) : IsNaN(v[k])

MatHasNaN(W) == \E i \in 1..Len(W) : VecHasNaN(W[i])

VecFinite(v) == \A k \in 1..Len(v) : IsFinite(v[k])

MatFinite(W) == \A i \in 1..Len(W) : VecFinite(W[i])

-----------------------------------------------------------------------------
(* Modules.  A linear layer is [kind |-> "linear", weight, bias], weight a *)
(* sequence of out_features rows of in_features entries; a normalization   *)
(* is [kind |-> "ln", weight, bias] with a vector weight; bias = NoBias    *)
(* stands for None; buf marks a bias registered as a buffer, which         *)
(* parameters() does not yield.  Any other module has kind "other".        *)

NoBias == <<>>

HasBias(m) == m.bias # NoBias

OutFeatures(fc) == Len(fc.weight)

InFeatures(fc) == Len(fc.weight[1])

IsLinear(m) == m.kind = "linear"

IsLn(m) == m.kind = "ln"

\* weight.div_(scales.view(-1, 1)): row o divided by scales[o]
DivRows(W, scales) ==
    [o \in 1..Len(W) |-> [i \in 1..Len(W[o]) |-> Div(W[o][i], scales[o])]]

\* Mutant of MulCols: the scale viewed as a column, scales.view(-1, 1).
MulColsAsRows(W, scales) ==
    [o \in 1..Len(W) |-> [c \in 1..Len(W[o]) |-> Mul(W[o][c], scales[o])]]

\* weight.mul_(scales.view(1, -1)): column c multiplied by scales[c]
MulCols(W, scales) ==
    [o \in 1..Len(W) |-> [c \in 1..Len(W[o]) |-> Mul(W[o][c], scales[c])]]

\* The packed layout reshape(num_heads, 3, -1) gives output row o (from 0):
\* head o \div (3*hd), slot (o % (3*hd)) \div hd in q/k/v, lane o % hd.
QkvSlot(o, hd) == ((o - 1) % (3 * hd)) \div hd

\* The scale channel of a value row: head * hd + lane (from 1).
QkvChannel(o, hd) == ((o - 1) \div (3 * hd)) * hd + ((o - 1) % hd) + 1

\* Mutant of IsValueRow: slot 1 (the key rows) indexed instead of slot 2.
IsValueRowAsKey(o, hd) == QkvSlot(o, hd) = 1

IsValueRow(o, hd) == QkvSlot(o, hd) = 2

-----------------------------------------------------------------------------
(* scale_fc_fc, scale_ln_fcs, shift_fc_fc, shift_ln_fcs.                   *)

\* fc1.weight of a packed q/k/v projection: only value rows are divided.
ScaleQkvRows(W, scales, hd) ==
    [o \in 1..Len(W) |->
        IF IsValueRow(o, hd)
        THEN [i \in 1..Len(W[o]) |-> Div(W[o][i], scales[QkvChannel(o, hd)])]
        ELSE W[o]]

ScaleQkvBias(b, scales, hd) ==
    [o \in 1..Len(b) |->
        IF IsValueRow(o, hd) THEN Div(b[o], scales[QkvChannel(o, hd)]) ELSE b[o]]

ShiftQkvBias(b, shifts, hd) ==
    [o \in 1..Len(b) |->
        IF IsValueRow(o, hd) THEN Sub(b[o], shifts[QkvChannel(o, hd)]) ELSE b[o]]

ScaleFcFc(fc1, fc2, scales, nh) ==
    IF OutFeatures(fc1) = InFeatures(fc2) * 3
    THEN LET hd == InFeatures(fc2) \div nh
         IN  [err |-> "ok",
              fc1 |-> [fc1 EXCEPT
                         !.weight = ScaleQkvRows(fc1.weight, scales, hd),
                         !.bias = IF HasBias(fc1)
                                  THEN ScaleQkvBias(fc1.bias, scales, hd)
                                  ELSE NoBias],
              fc2 |-> [fc2 EXCEPT !.weight = MulCols(fc2.weight, scales)]]
    ELSE IF OutFeatures(fc1) # InFeatures(fc2)
    THEN [err |-> "AssertionError", fc1 |-> fc1, fc2 |-> fc2]
    ELSE [err |-> "ok",
          fc1 |-> [fc1 EXCEPT
                     !.bias = IF HasBias(fc1) THEN VecDiv(fc1.bias, scales)
                              ELSE NoBias,
                     !.weight = DivRows(fc1.weight, scales)],
          fc2 |-> [fc2 EXCEPT !.weight = MulCols(fc2.weight, scales)]]

\* The bias of a following layer after a shift: added to an existing bias,
\* materialised as a buffer under use_shift, otherwise left alone.
ShiftFollowing(fc, shifts, biased, useShift) ==
    IF biased
    THEN [fc EXCEPT !.bias = VecAdd(fc.bias, MatVec(fc.weight, shifts))]
    ELSE IF useShift
    THEN [fc EXCEPT !.bias = MatVec(fc.weight, shifts), !.buf = TRUE]
    ELSE fc

ShiftFcFc(fc1, fc2, shifts, nh, useShift) ==
    IF OutFeatures(fc1) = InFeatures(fc2) * 3
    THEN LET hd == InFeatures(fc2) \div nh
         IN  [err |-> "ok",
              fc1 |-> [fc1 EXCEPT
                         !.bias = IF HasBias(fc1)
                                  THEN ShiftQkvBias(fc1.bias, shifts, hd)
                                  ELSE NoBias],
              fc2 |-> ShiftFollowing(fc2, shifts, HasBias(fc2), useShift)]
    ELSE IF OutFeatures(fc1) # InFeatures(fc2)
    THEN [err |-> "AssertionError", fc1 |-> fc1, fc2 |-> fc2]
    ELSE [err |-> "ok",
          fc1 |-> [fc1 EXCEPT
                     !.bias = IF HasBias(fc1) THEN VecSub(fc1.bias, shifts)
                              ELSE NoBias],
          fc2 |-> ShiftFollowing(fc2, shifts, HasBias(fc2), useShift)]

\* for p in m.parameters(): assert torch.isnan(p).sum() == 0
LnParamsNaN(ln) == VecHasNaN(ln.weight) \/ VecHasNaN(ln.bias)

FcParamsNaN(fc) == MatHasNaN(fc.weight) \/ (~fc.buf /\ VecHasNaN(fc.bias))

NaNGuard(ln, fcs) ==
    IF LnParamsNaN(ln) \/ \E k \in 1..Len(fcs) : FcParamsNaN(fcs[k])
    THEN "AssertionError"
    ELSE "ok"

ScaleLnFcs(ln, fcs, scales) ==
    LET ln2 == [ln EXCEPT
                  !.weight = VecDiv(ln.weight, scales),
                  !.bias = IF HasBias(ln) THEN VecDiv(ln.bias, scales)
                           ELSE NoBias]
        fcs2 == [k \in 1..Len(fcs) |->
                    [fcs[k] EXCEPT !.weight = MulCols(fcs[k].weight, scales)]]
    IN  [err |-> NaNGuard(ln2, fcs2), ln |-> ln2, fcs |-> fcs2]

ShiftLnFcs(ln, fcs, shifts, biased, useShift) ==
    LET ln2 == IF biased THEN [ln EXCEPT !.bias = VecSub(ln.bias, shifts)]
               ELSE ln
        fcs2 == [k \in 1..Len(fcs) |->
                    ShiftFollowing(fcs[k], shifts, biased, useShift)]
    IN  [err |-> NaNGuard(ln2, fcs2), ln |-> ln2, fcs |-> fcs2]

-----------------------------------------------------------------------------
(* apply_scale, apply_shift.                                               *)

NoShift == <<>>

Raise(e, p, ls) == [err |-> e, prev_op |-> p, layers |-> ls]

ApplyScaleResult(scales, p, ls, nh) ==
    IF Len(p) # 1 THEN Raise("AssertionError", p, ls)
    ELSE IF IsLinear(p[1])
    THEN IF Len(ls) # 1 THEN Raise("AssertionError", p, ls)
         ELSE LET r == ScaleFcFc(p[1], ls[1], scales, nh)
              IN  Raise(r.err, <<r.fc1>>, <<r.fc2>>)
    ELSE IF IsLn(p[1])
    THEN LET r == ScaleLnFcs(p[1], ls, scales)
         IN  Raise(r.err, <<r.ln>>, r.fcs)
    ELSE Raise("NotImplementedError", p, ls)

\* Mutant of ApplyShiftResult: the assert on len(layers) left out.
ApplyShiftUnguarded(shifts, p, ls, nh, biased, useShift) ==
    IF shifts = NoShift THEN Raise("ok", p, ls)
    ELSE IF Len(p) # 1 THEN Raise("AssertionError", p, ls)
    ELSE IF IsLinear(p[1])
    THEN LET r == ShiftFcFc(p[1], ls[1], shifts, nh, useShift)
         IN  Raise(r.err, <<r.fc1>>, <<r.fc2>> \o Tail(ls))
    ELSE IF IsLn(p[1])
    THEN LET r == ShiftLnFcs(p[1], ls, shifts, biased, useShift)
         IN  Raise(r.err, <<r.ln>>, r.fcs)
    ELSE Raise("NotImplementedError", p, ls)

ApplyShiftResult(shifts, p, ls, nh, biased, useShift) ==
    IF shifts = NoShift THEN Raise("ok", p, ls)
    ELSE IF Len(p) # 1 THEN Raise("AssertionError", p, ls)
    ELSE IF IsLinear(p[1])
    THEN IF Len(ls) # 1 THEN Raise("AssertionError", p, ls)
         ELSE LET r == ShiftFcFc(p[1], ls[1], shifts, nh, useShift)
              IN  Raise(r.err, <<r.fc1>>, <<r.fc2>>)
    ELSE IF IsLn(p[1])
    THEN LET r == ShiftLnFcs(p[1], ls, shifts, biased, useShift)
         IN  Raise(r.err, <<r.ln>>, r.fcs)
    ELSE Raise("NotImplementedError", p, ls)

-----------------------------------------------------------------------------
(* Subsets the equivalent-transform engine is run on.                      *)

\* in_features of the following layers, and the length of a scale vector
Width == 2

\* weights are generated from seeds 0..MaxSeed
MaxSeed == 1

\* calls of apply_scale / apply_shift per behaviour
MaxCalls == 2

Entry(seed, i, j) == R(((seed + 2 * i + 3 * j) % 5) - 2)

Matrix(seed, rows, cols) ==
    [i \in 1..rows |-> [j \in 1..cols |-> Entry(seed, i, j)]]

Vector(seed, n) == [j \in 1..n |-> Entry(seed, 0, j)]

MkLinear(seed, out, in, biased) ==
    [kind |-> "linear", weight |-> Matrix(seed, out, in),
     bias |-> IF biased THEN Vector(seed + 1, out) ELSE NoBias, buf |-> FALSE]

MkLn(seed, n, biased) ==
    [kind |-> "ln", weight |-> Vector(seed, n),
     bias |-> IF biased THEN Vector(seed + 1, n) ELSE NoBias, buf |-> FALSE]

MkOther == [kind |-> "other", weight |-> <<>>, bias |-> NoBias, buf |-> FALSE]

\* A preceding op is described by its kind and, for a linear op, by the
\* ratio of its out_features to the following layer's in_features.
MkPrev(d, seed, biased) ==
    IF d[1] = "linear" THEN MkLinear(seed, d[2] * Width, Width, biased)
    ELSE IF d[1] = "ln" THEN MkLn(seed, Width, biased)
    ELSE MkOther

PrevShapes ==
    {<<>>, <<<<"ln", 1>>>>, <<<<"other", 1>>>>, <<<<"linear", 1>>, <<"ln", 1>>>>}
    \cup {<<<<"linear", m>>>> : m \in 1..3}

LayerCounts == {1, 2}

Heads == {h \in 1..Width : Width % h = 0}

ScaleCycle == <<R(2), R(3), <<1, 2>>, <<1, 3>>>>

PosScale(k) == [c \in 1..Width |-> ScaleCycle[((c + k) % 4) + 1]]

ZeroScale(p) == [c \in 1..Width |-> IF c = p THEN Zero ELSE R(2)]

PosScales == {PosScale(k) : k \in 0..3}

CorruptScales == {ZeroScale(1), ZeroScale(Width)}

Scales == PosScales \cup CorruptScales

Shifts == {[c \in 1..Width |-> R(c)], NoShift}

RotIdle == rot_layer = <<>> /\ online_rotate = FALSE /\ rot_trace = <<>>

ClipIdle == clip = <<>>

MixIdle == mix = <<>>

LaterIdle == run = <<>> /\ dist = <<>> /\ rot_wrap = <<>>

ScaleInit ==
    \E shape \in PrevShapes, n \in LayerCounts, seed \in 0..MaxSeed,
       biased \in BOOLEAN, nh \in Heads, us \in BOOLEAN :
        /\ prev_op = [k \in 1..Len(shape) |-> MkPrev(shape[k], seed + k, biased)]
        /\ layers = [k \in 1..n |-> MkLinear(seed + 2 + k, Width, Width, biased)]
        /\ num_heads = nh
        /\ use_shift = us
        /\ has_bias = biased
        /\ trace = <<>>

\* An exception is not caught by the class: it ends the run.
Running == \A k \in 1..Len(trace) : trace[k].err = "ok"

Call(op, arg, r) ==
    /\ prev_op' = r.prev_op
    /\ layers' = r.layers
    /\ trace' = Append(trace, [op |-> op, arg |-> arg, err |-> r.err,
                               prev_op |-> prev_op, layers |-> layers])
    /\ UNCHANGED <<num_heads, use_shift, has_bias>>

ApplyScale ==
    /\ Len(trace) < MaxCalls
    /\ Running
    /\ \E scales \in Scales :
          Call("scale", scales, ApplyScaleResult(scales, prev_op, layers, num_heads))
    /\ UNCHANGED <<rotVars, clipVars, mixVars, laterVars>>

ApplyShift ==
    /\ Len(trace) < MaxCalls
    /\ Running
    /\ \E shifts \in Shifts :
          Call("shift", shifts,
               ApplyShiftResult(shifts, prev_op, layers, num_heads, has_bias, use_shift))
    /\ UNCHANGED <<rotVars, clipVars, mixVars, laterVars>>

InitScale == ScaleInit /\ RotIdle /\ ClipIdle /\ MixIdle /\ LaterIdle

NextScale == ApplyScale \/ ApplyShift

SpecScale == InitScale /\ [][NextScale]_vars

-----------------------------------------------------------------------------
(* Properties of the equivalent-transform engine (C1 - C5).                *)

Last == trace[Len(trace)]

Called == Len(trace) > 0

\* The forward functions the transform must preserve.
FcApply(fc, x) ==
    LET y == MatVec(fc.weight, x)
    IN  IF HasBias(fc) THEN VecAdd(y, fc.bias) ELSE y

LnApply(ln, xhat) ==
    LET y == [k \in 1..Len(xhat) |-> Mul(xhat[k], ln.weight[k])]
    IN  IF HasBias(ln) THEN VecAdd(y, ln.bias) ELSE y

PrevApply(m, x) == IF IsLinear(m) THEN FcApply(m, x) ELSE LnApply(m, x)

\* following(prev(x)), one output per following layer
Composed(p, ls, x) == [k \in 1..Len(ls) |-> FcApply(ls[k], PrevApply(p[1], x))]

\* The unit vectors, the zero vector and a vector with distinct entries: a
\* map affine in x is fixed by its values on them.
Probes ==
    {[c \in 1..Width |-> IF c = k THEN One ELSE Zero] : k \in 0..Width}
    \cup {[c \in 1..Width |-> R(c - 2)]}

\* The shapes C1 speaks of: a normalization with any following layers, or a
\* linear op feeding one layer of matching width.
PlainSubset(p, ls) ==
    /\ Len(p) = 1
    /\ \/ IsLn(p[1])
       \/ /\ IsLinear(p[1])
          /\ Len(ls) = 1
          /\ OutFeatures(p[1]) = InFeatures(ls[1])

FusedSubset(p, ls) ==
    /\ Len(p) = 1
    /\ IsLinear(p[1])
    /\ Len(ls) = 1
    /\ OutFeatures(p[1]) = 3 * InFeatures(ls[1])

\* C1: apply_scale with a positive scale vector on a normalization (any
\* following layers) or on a linear op feeding one layer of equal width
\* returns normally and leaves following(prev(x)) unchanged for every x.
C1_ScalePreservesFunction ==
    (/\ Called
     /\ Last.op = "scale"
     /\ Last.arg \in PosScales
     /\ PlainSubset(Last.prev_op, Last.layers))
    => /\ Last.err = "ok"
       /\ \A x \in Probes :
             Composed(prev_op, layers, x) = Composed(Last.prev_op, Last.layers, x)

\* A scale call that changed the weights of a normalization and of two
\* following layers.
C1_Witness ==
    /\ Called
    /\ Last.op = "scale"
    /\ Last.arg \in PosScales
    /\ Last.err = "ok"
    /\ IsLn(Last.prev_op[1])
    /\ Len(layers) = 2
    /\ prev_op # Last.prev_op
    /\ layers[1] # Last.layers[1]
    /\ layers[2] # Last.layers[2]

Inverse(scales) == [c \in 1..Len(scales) |-> Recip(scales[c])]

First == trace[Len(trace) - 1]

\* C2: apply_scale with s and then with 1/s, on any subset apply_scale
\* accepts and any positive s, restores every weight and bias.
C2_ScaleRoundTrip ==
    (/\ Len(trace) >= 2
     /\ First.op = "scale"
     /\ Last.op = "scale"
     /\ First.arg \in PosScales
     /\ First.err = "ok"
     /\ Last.arg = Inverse(First.arg))
    => /\ Last.err = "ok"
       /\ prev_op = First.prev_op
       /\ layers = First.layers

\* A round trip through the packed q/k/v branch, with biases, that changed
\* the weights in between.
C2_Witness ==
    /\ Len(trace) >= 2
    /\ First.op = "scale"
    /\ Last.op = "scale"
    /\ First.arg \in PosScales
    /\ First.err = "ok"
    /\ Last.arg = Inverse(First.arg)
    /\ FusedSubset(First.prev_op, First.layers)
    /\ HasBias(First.prev_op[1])
    /\ Last.prev_op # First.prev_op
    /\ Last.layers # First.layers

ModuleFinite(m) ==
    /\ IF IsLinear(m) THEN MatFinite(m.weight) ELSE VecFinite(m.weight)
    /\ VecFinite(m.bias)

AllFinite(p, ls) ==
    /\ \A k \in 1..Len(p) : ModuleFinite(p[k])
    /\ \A k \in 1..Len(ls) : ModuleFinite(ls[k])

\* C3, as claimed: a scale fusion given a vector with a zero divisor fails
\* with a fatal error and never returns normally with a non-finite entry.
C3_NonFiniteGuard ==
    (/\ Called
     /\ Last.op = "scale"
     /\ Last.arg \in CorruptScales
     /\ (PlainSubset(Last.prev_op, Last.layers)
           \/ FusedSubset(Last.prev_op, Last.layers)))
    => /\ Last.err = "AssertionError"
       /\ ~(Last.err = "ok" /\ ~AllFinite(prev_op, layers))

\* C4: apply_scale, and apply_shift with a non-null vector, raise and leave
\* every weight and bias alone unless the subset has exactly one preceding
\* op, of a linear or normalization type, a linear one with one follower.
BadTopology(p, ls) ==
    \/ Len(p) # 1
    \/ ~(IsLinear(p[1]) \/ IsLn(p[1]))
    \/ IsLinear(p[1]) /\ Len(ls) > 1

C4_TopologyGuard ==
    (/\ Called
     /\ Last.op = "scale" \/ (Last.op = "shift" /\ Last.arg # NoShift)
     /\ BadTopology(Last.prev_op, Last.layers))
    => /\ Last.err \in {"AssertionError", "NotImplementedError"}
       /\ prev_op = Last.prev_op
       /\ layers = Last.layers

\* A shift refused because a linear op has two following layers.
C4_Witness ==
    /\ Called
    /\ Last.op = "shift"
    /\ Last.arg # NoShift
    /\ Len(Last.prev_op) = 1
    /\ IsLinear(Last.prev_op[1])
    /\ Len(Last.layers) = 2
    /\ Last.err = "AssertionError"

FusedScaled ==
    /\ Called
    /\ Last.op = "scale"
    /\ Last.err = "ok"
    /\ FusedSubset(Last.prev_op, Last.layers)

\* C5, as claimed: on a packed q/k/v op only the last third of the output
\* rows and bias entries is divided by the scale, whatever the head count.
C5_LastThirdOnly ==
    FusedScaled =>
       LET old == Last.prev_op[1]
           new == prev_op[1]
           d == InFeatures(Last.layers[1])
       IN  /\ \A o \in 1..(2 * d) :
                 /\ new.weight[o] = old.weight[o]
                 /\ HasBias(old) => new.bias[o] = old.bias[o]
           /\ \A c \in 1..d :
                 /\ new.weight[2 * d + c] =
                       [i \in 1..Len(old.weight[2 * d + c]) |->
                           Div(old.weight[2 * d + c][i], Last.arg[c])]
                 /\ HasBias(old) =>
                       new.bias[2 * d + c] = Div(old.bias[2 * d + c], Last.arg[c])
           /\ layers[1].weight = MulCols(Last.layers[1].weight, Last.arg)

\* C5, amended: the rows are packed head by head as (q, k, v) blocks of
\* head_dim rows each; in every head's block the v rows, and only they, are
\* divided by that head's slice of the scale.
C5_ValueRowsPerHead ==
    FusedScaled =>
       LET old == Last.prev_op[1]
           new == prev_op[1]
           d == InFeatures(Last.layers[1])
           hd == d \div num_heads
       IN  /\ \A h \in 0..(num_heads - 1), j \in 0..2, e \in 1..hd :
                 LET o == h * 3 * hd + j * hd + e
                     c == h * hd + e
                 IN  IF j = 2
                     THEN /\ new.weight[o] =
                                [i \in 1..Len(old.weight[o]) |->
                                    Div(old.weight[o][i], Last.arg[c])]
                          /\ HasBias(old) =>
                                new.bias[o] = Div(old.bias[o], Last.arg[c])
                     ELSE /\ new.weight[o] = old.weight[o]
                          /\ HasBias(old) => new.bias[o] = old.bias[o]
           /\ num_heads = 1 =>
                 \A o \in 1..(2 * d) : new.weight[o] = old.weight[o]
           /\ \A o \in 1..Len(layers[1].weight), c \in 1..d :
                 layers[1].weight[o][c] =
                     Mul(Last.layers[1].weight[o][c], Last.arg[c])

\* A packed op with more than one head, scaled by a positive vector.
C5_Witness ==
    /\ FusedScaled
    /\ num_heads > 1
    /\ HasBias(Last.prev_op[1])
    /\ Last.arg \in PosScales
    /\ prev_op # Last.prev_op

-----------------------------------------------------------------------------
(* Rotation engine: rotate_pre_layers, rotate_post_layers.                 *)

\* Q is RotDim x RotDim, and so is the layer's weight
RotDim == 2

\* rotation calls per behaviour
MaxRotations == 2

Transpose(A) == [i \in 1..Len(A[1]) |-> [j \in 1..Len(A) |-> A[j][i]]]

MatMul(A, B) ==
    [i \in 1..Len(A) |->
        [j \in 1..Len(B[1]) |->
            SumSeq([k \in 1..Len(B) |-> Mul(A[i][k], B[k][j])])]]

\* Mutant of RotatePreWeight: the rotation applied on the left.
RotatePreOnLeft(W, Q) == MatMul(Q, W)

\* layer.weight.data = torch.matmul(W, Q)
RotatePreWeight(W, Q) == MatMul(W, Q)

\* layer.weight.data = torch.matmul(Q.T, W)
RotatePostWeight(W, Q) == MatMul(Transpose(Q), W)

\* layer.bias.data = torch.matmul(Q.T, b)
RotatePostBias(b, Q) == MatVec(Transpose(Q), b)

\* apply_exact_had_to_linear(layer, had_dim=-1, output=False) lies outside
\* this file; its effect is kept as a count of the transforms applied.
ApplyExactHad(layer) == [layer EXCEPT !.had = layer.had + 1]

RotatePreLayer(layer, Q) ==
    [layer EXCEPT !.weight = RotatePreWeight(layer.weight, Q)]

RotatePostLayer(layer, Q, exact_had, online) ==
    LET l1 == [layer EXCEPT !.weight = RotatePostWeight(layer.weight, Q)]
        l2 == IF exact_had /\ online THEN ApplyExactHad(l1) ELSE l1
    IN  IF HasBias(l2) THEN [l2 EXCEPT !.bias = RotatePostBias(l2.bias, Q)]
        ELSE l2

\* Orthogonal matrices with rational entries: cyclic permutations, single
\* sign flips and the rotation by the angle of the 3-4-5 triangle.
CyclicPerm(k) ==
    [i \in 1..RotDim |->
        [j \in 1..RotDim |-> IF j = ((i - 1 + k) % RotDim) + 1 THEN One ELSE Zero]]

SignFlip(p) ==
    [i \in 1..RotDim |->
        [j \in 1..RotDim |->
            IF i # j THEN Zero ELSE IF i = p THEN R(-1) ELSE One]]

Givens ==
    [i \in 1..RotDim |->
        [j \in 1..RotDim |->
            IF i = 1 /\ j = 1 THEN <<3, 5>>
            ELSE IF i = 1 /\ j = 2 THEN <<-4, 5>>
            ELSE IF i = 2 /\ j = 1 THEN <<4, 5>>
            ELSE IF i = 2 /\ j = 2 THEN <<3, 5>>
            ELSE IF i = j THEN One ELSE Zero]]

Rotations ==
    {CyclicPerm(k) : k \in 0..(RotDim - 1)}
    \cup {SignFlip(p) : p \in 1..RotDim} \cup {Givens}

ScaleIdle ==
    /\ prev_op = <<>> /\ layers = <<>> /\ num_heads = 1
    /\ use_shift = FALSE /\ has_bias = FALSE /\ trace = <<>>

RotInit ==
    \E seed \in 0..MaxSeed, biased \in BOOLEAN, online \in BOOLEAN :
        /\ rot_layer = [weight |-> Matrix(seed, RotDim, RotDim),
                        bias |-> IF biased THEN Vector(seed + 1, RotDim) ELSE NoBias,
                        had |-> 0]
        /\ online_rotate = online
        /\ rot_trace = <<>>

RotatePreLayers ==
    /\ Len(rot_trace) < MaxRotations
    /\ \E Q \in Rotations :
          /\ rot_layer' = RotatePreLayer(rot_layer, Q)
          /\ rot_trace' = Append(rot_trace,
                [op |-> "pre", Q |-> Q, exact_had |-> FALSE, layer |-> rot_layer])
    /\ UNCHANGED <<online_rotate, scaleVars, clipVars, mixVars, laterVars>>

RotatePostLayers ==
    /\ Len(rot_trace) < MaxRotations
    /\ \E Q \in Rotations, exact_had \in BOOLEAN :
          /\ rot_layer' = RotatePostLayer(rot_layer, Q, exact_had, online_rotate)
          /\ rot_trace' = Append(rot_trace,
                [op |-> "post", Q |-> Q, exact_had |-> exact_had, layer |-> rot_layer])
    /\ UNCHANGED <<online_rotate, scaleVars, clipVars, mixVars, laterVars>>

InitRot == ScaleIdle /\ RotInit /\ ClipIdle /\ MixIdle /\ LaterIdle

NextRot == RotatePreLayers \/ RotatePostLayers

SpecRot == InitRot /\ [][NextRot]_vars

-----------------------------------------------------------------------------
(* Properties of the rotation engine (C6).                                 *)

Identity == CyclicPerm(0)

Orthogonal(Q) == MatMul(Transpose(Q), Q) = Identity

RotFirst == rot_trace[Len(rot_trace) - 1]

RotLast == rot_trace[Len(rot_trace)]

\* rotate_pre_layers([layer], Q) directly followed by
\* rotate_post_layers([layer], Q) with exact_had disabled
PreThenPost ==
    /\ Len(rot_trace) >= 2
    /\ RotFirst.op = "pre"
    /\ RotLast.op = "post"
    /\ RotLast.Q = RotFirst.Q
    /\ Orthogonal(RotLast.Q)
    /\ ~RotLast.exact_had

\* C6, as claimed: rotate_pre_layers then rotate_post_layers with the same
\* orthogonal Q, exact_had disabled, leaves the weight equal to the original.
C6_RotationRoundTrip == PreThenPost => rot_layer.weight = RotFirst.layer.weight

\* C6, amended: the two calls leave the weight equal to Q^T W Q, entry
\* (i, j) being the sum over a, b of Q[a][i] W[a][b] Q[b][j]; that is the
\* original W exactly when W commutes with Q.
C6_RotationConjugates ==
    PreThenPost =>
       LET W == RotFirst.layer.weight
           Q == RotLast.Q
           n == Len(Q)
       IN  /\ \A i \in 1..n, j \in 1..n :
                 rot_layer.weight[i][j] =
                    SumSeq([a \in 1..n |->
                       SumSeq([b \in 1..n |->
                          Mul(Q[a][i], Mul(W[a][b], Q[b][j]))])])
           /\ (rot_layer.weight = W) <=> (MatMul(W, Q) = MatMul(Q, W))
           /\ rot_layer.had = RotFirst.layer.had

\* A pre/post pair with a rotation that does not commute with the weight.
C6_Witness ==
    /\ PreThenPost
    /\ RotLast.Q = Givens
    /\ rot_layer.weight # RotFirst.layer.weight

-----------------------------------------------------------------------------
(* Clip search: auto_clip_layer.                                           *)
(*                                                                         *)
(* The quantizers (fake_quant_weight_dynamic, get_learnable_range, ...)    *)
(* lie outside this file, so the squared error a shrink level yields is an *)
(* input of the model: an error profile, drawn with the other arguments,   *)
(* gives the error of every (input, level, channel, group).  Everything    *)
(* auto_clip_layer itself computes is modelled as the code computes it.    *)

\* oc_batch_size = 256 if w.shape[0] % 256 == 0 else 64
OcBatchLarge == 256

OcBatchSmall == 64

\* min_errs = torch.ones_like(org_max_val) * 1e9
Sentinel == 1000000000

\* max_shrink = 0.5
MaxShrinkNum == 1

MaxShrinkDen == 2

\* n_grid ranges over 1..MaxGrid
MaxGrid == 6

\* captured inputs handed to one call
MaxInputs == 2

\* columns of one quantization group
GroupSize == 2

RowCounts == {1, OcBatchSmall, 2 * OcBatchSmall}

\* <<clip_version, token positions of an input, n_sample_token>>
ClipCases ==
    {<<"v1", 4, 2>>, <<"v2", 5, 2>>, <<"v3", 4, 2>>, <<"v1", 1, 2>>, <<"v3", 1, 2>>}

ErrProfiles == <<"flat", "down", "up", "huge", "nan">>

\* int(max_shrink * n_grid)
ShrinkLevels(n_grid) == (MaxShrinkNum * n_grid) \div MaxShrinkDen

OcBatchSize(rows) == IF rows % OcBatchLarge = 0 THEN OcBatchLarge ELSE OcBatchSmall

\* 1 - i_s / n_grid
ShrinkFactor(i_s, n_grid) == Norm(n_grid - i_s, n_grid)

\* x[:, 0 :: T // n]: the positions kept, 0 when the step is 0
KeptTokens(T, n) == IF T \div n = 0 THEN 0 ELSE ((T - 1) \div (T \div n)) + 1

RMax(S) == CHOOSE x \in S : \A y \in S : ~Less(x, y)

RMin(S) == CHOOSE x \in S : \A y \in S : ~Less(y, x)

RAbs(a) == <<Abs(a[1]), a[2]>>

ClipCols == 2 * GroupSize

\* w[r][col]
ClipWeight(c, r, col) == Entry(c.seed, r, col)

GroupWidth(c) == IF c.per_group THEN GroupSize ELSE ClipCols

NumGroups(c) == ClipCols \div GroupWidth(c)

\* w.reshape(rows, 1, -1, group_size)[r, 0, g, :]
GroupOf(c, r, g) ==
    {ClipWeight(c, r, (g - 1) * GroupWidth(c) + k) : k \in 1..GroupWidth(c)}

\* w.abs().amax(dim=-1) if clip_sym else w.amax(dim=-1)
OrgMaxVal(c, r, g) ==
    IF c.sym THEN RMax({RAbs(x) : x \in GroupOf(c, r, g)})
    ELSE RMax(GroupOf(c, r, g))

\* w.amin(dim=-1)
OrgMinVal(c, r, g) == RMin(GroupOf(c, r, g))

\* The error of input i at level i_s for channel r, group g.  Channels of
\* odd r + g follow the next profile of the cycle.
ProfileOf(c, r, g) ==
    ErrProfiles[((c.profile - 1 + ((r + g) % 2)) % Len(ErrProfiles)) + 1]

ErrorAt(c, i, i_s, r, g) ==
    LET p == ProfileOf(c, r, g)
    IN  IF p = "flat" THEN R(i)
        ELSE IF p = "down" THEN R(MaxGrid + i - i_s)
        ELSE IF p = "up" THEN R(i + i_s)
        ELSE IF p = "huge" THEN R(Sentinel + i_s)
        ELSE NaN

\* err_mean = 0; err_mean += err (per input); err_mean /= len(input)
ErrMean(c, i_s, r, g) ==
    Div(SumSeq([i \in 1..c.inputs |-> ErrorAt(c, i, i_s, r, g)]), R(c.inputs))

\* Mutant of CurBest: the comparison written <=.
CurBestOrEqual(err, min_err) == Less(err, min_err) \/ err = min_err

\* cur_best_idx = err_mean < min_errs
CurBest(err, min_err) == Less(err, min_err)

Grid(rows, groups, f(_, _)) == [k \in 1..rows |-> [g \in 1..groups |-> f(k, g)]]

ClipInit ==
    \E rows \in RowCounts, n_grid \in 1..MaxGrid, sym \in BOOLEAN,
       per_group \in BOOLEAN, case \in ClipCases,
       inputs \in 1..MaxInputs, seed \in 0..MaxSeed,
       profile \in 1..Len(ErrProfiles) :
        clip = [rows |-> rows, n_grid |-> n_grid, sym |-> sym,
                per_group |-> per_group, version |-> case[1],
                tokens |-> case[2], n_sample_token |-> case[3],
                inputs |-> inputs, seed |-> seed, profile |-> profile,
                pc |-> "enter", err |-> "ok", i_b |-> 0, i_s |-> 0,
                best_max |-> <<>>, best_min |-> <<>>, min_errs |-> <<>>,
                org_out_dict |-> {}, org_out_runs |-> 0, org_out_bound |-> FALSE,
                best_max_all |-> <<>>, best_min_all |-> <<>>,
                level |-> <<>>, result |-> <<>>]

\* From the entry to the batch loop: the reshape and the batch-size assert.
ClipEnter ==
    /\ clip # <<>>
    /\ clip.pc = "enter"
    /\ clip' = IF clip.rows % OcBatchSize(clip.rows) # 0
               THEN [clip EXCEPT !.pc = "done", !.err = "AssertionError"]
               ELSE [clip EXCEPT !.pc = "batch"]
    /\ UNCHANGED <<scaleVars, rotVars, mixVars, laterVars>>

\* The head of one pass of `for i_b`: bounds and errors of the batch.
ClipBatchStart ==
    /\ clip # <<>>
    /\ clip.pc = "batch"
    /\ clip.i_b < clip.rows \div OcBatchSize(clip.rows)
    /\ LET bs == OcBatchSize(clip.rows)
           base == clip.i_b * bs
           ng == NumGroups(clip)
           omax(k, g) == OrgMaxVal(clip, base + k, g)
           omin(k, g) == OrgMinVal(clip, base + k, g)
           sent(k, g) == R(Sentinel)
       IN  clip' = [clip EXCEPT
                      !.pc = "level", !.i_s = 0,
                      !.best_max = Grid(bs, ng, omax),
                      !.best_min = Grid(bs, ng, omin),
                      !.min_errs = Grid(bs, ng, sent),
                      !.org_out_dict = {},
                      !.level = <<>>]
    /\ UNCHANGED <<scaleVars, rotVars, mixVars, laterVars>>

\* One pass of `for i_s`, with its loop over the inputs.
ClipLevel ==
    /\ clip # <<>>
    /\ clip.pc = "level"
    /\ clip.i_s < ShrinkLevels(clip.n_grid)
    /\ LET bs == OcBatchSize(clip.rows)
           base == clip.i_b * bs
           ng == NumGroups(clip)
           f == ShrinkFactor(clip.i_s, clip.n_grid)
           maxv(k, g) == Mul(OrgMaxVal(clip, base + k, g), f)
           minv(k, g) == IF clip.sym THEN Neg(maxv(k, g))
                         ELSE Mul(OrgMinVal(clip, base + k, g), f)
           errm(k, g) == ErrMean(clip, clip.i_s, base + k, g)
           hit(k, g) == CurBest(errm(k, g), clip.min_errs[k][g])
           nmin(k, g) == IF hit(k, g) THEN errm(k, g) ELSE clip.min_errs[k][g]
           nbmax(k, g) == IF hit(k, g) THEN maxv(k, g) ELSE clip.best_max[k][g]
           nbmin(k, g) == IF hit(k, g) THEN minv(k, g) ELSE clip.best_min[k][g]
           fresh == (1..clip.inputs) \ clip.org_out_dict
       IN  clip' =
             IF clip.tokens \div clip.n_sample_token = 0
             THEN [clip EXCEPT !.pc = "done", !.err = "ValueError"]
             ELSE IF clip.version \notin {"v1", "v2"}
             THEN [clip EXCEPT !.pc = "done", !.err = "Exception",
                               !.org_out_dict = {1},
                               !.org_out_runs = clip.org_out_runs + 1,
                               !.org_out_bound = TRUE]
             ELSE [clip EXCEPT
                     !.i_s = clip.i_s + 1,
                     !.min_errs = Grid(bs, ng, nmin),
                     !.best_max = Grid(bs, ng, nbmax),
                     !.best_min = Grid(bs, ng, nbmin),
                     !.org_out_dict = 1..clip.inputs,
                     !.org_out_runs = clip.org_out_runs + Cardinality(fresh),
                     !.org_out_bound = TRUE,
                     !.level = [i_s |-> clip.i_s,
                                err_mean |-> Grid(bs, ng, errm),
                                max_val |-> Grid(bs, ng, maxv),
                                min_val |-> Grid(bs, ng, minv),
                                min_errs |-> clip.min_errs,
                                best_max |-> clip.best_max,
                                best_min |-> clip.best_min]]
    /\ UNCHANGED <<scaleVars, rotVars, mixVars, laterVars>>

\* The tail of one pass of `for i_b`: the batch's bounds are appended.
ClipBatchEnd ==
    /\ clip # <<>>
    /\ clip.pc = "level"
    /\ clip.i_s = ShrinkLevels(clip.n_grid)
    /\ clip' = [clip EXCEPT
                  !.pc = "batch", !.i_b = clip.i_b + 1,
                  !.best_max_all = clip.best_max_all \o clip.best_max,
                  !.best_min_all = clip.best_min_all \o clip.best_min]
    /\ UNCHANGED <<scaleVars, rotVars, mixVars, laterVars>>

\* After the batch loop: torch.cat, `del org_out`, return.
ClipReturn ==
    /\ clip # <<>>
    /\ clip.pc = "batch"
    /\ clip.i_b = clip.rows \div OcBatchSize(clip.rows)
    /\ clip' = IF ~clip.org_out_bound
               THEN [clip EXCEPT !.pc = "done", !.err = "UnboundLocalError"]
               ELSE [clip EXCEPT
                       !.pc = "done",
                       !.result = [max |-> clip.best_max_all,
                                   min |-> clip.best_min_all]]
    /\ UNCHANGED <<scaleVars, rotVars, mixVars, laterVars>>

InitClip == ScaleIdle /\ RotIdle /\ ClipInit /\ MixIdle /\ LaterIdle

NextClip == ClipEnter \/ ClipBatchStart \/ ClipLevel \/ ClipBatchEnd \/ ClipReturn

SpecClip == InitClip /\ [][NextClip]_vars

-----------------------------------------------------------------------------
(* Properties of the clip search (C7 - C9).                                *)

ClipReturned == clip.pc = "done" /\ clip.err = "ok"

Cells(grid) == {<<k, g>> : k \in 1..Len(grid), g \in 1..NumGroups(clip)}

\* C7, as claimed: with clip_sym every returned pair of bounds satisfies
\* best_min = -best_max, whatever the errors of the shrink levels were.
C7_SymmetricBounds ==
    (clip # <<>> /\ ClipReturned /\ clip.sym) =>
       \A c \in Cells(clip.result.max) :
          clip.result.min[c[1]][c[2]] = Neg(clip.result.max[c[1]][c[2]])

\* a <= b, false when either is NaN
LessEq(a, b) == Less(a, b) \/ (a = b /\ ~IsNaN(a))

\* C8: passing a shrink level never raises a recorded minimum error; where
\* the level's mean error is strictly below the recorded minimum the error
\* and both bounds are replaced by the level's, and everywhere else (a tie
\* included) the earlier error and bounds are kept.
C8_ClipUpdateRule ==
    (clip # <<>> /\ clip.level # <<>>) =>
       \A c \in Cells(clip.best_max) :
          LET k == c[1]
              g == c[2]
              old == clip.level
              err == old.err_mean[k][g]
          IN  /\ LessEq(clip.min_errs[k][g], old.min_errs[k][g])
              /\ IF ~IsNaN(err) /\ err[1] * old.min_errs[k][g][2]
                                    < old.min_errs[k][g][1] * err[2]
                 THEN /\ clip.min_errs[k][g] = err
                      /\ clip.best_max[k][g] = old.max_val[k][g]
                      /\ clip.best_min[k][g] = old.min_val[k][g]
                 ELSE /\ clip.min_errs[k][g] = old.min_errs[k][g]
                      /\ clip.best_max[k][g] = old.best_max[k][g]
                      /\ clip.best_min[k][g] = old.best_min[k][g]

\* A level past the first at which one channel ties with its recorded error
\* and keeps a bound larger than the level's, while another improves.
C8_Witness ==
    /\ clip # <<>>
    /\ clip.level # <<>>
    /\ clip.level.i_s >= 1
    /\ \E c \in Cells(clip.best_max) :
          /\ clip.level.err_mean[c[1]][c[2]] = clip.level.min_errs[c[1]][c[2]]
          /\ clip.best_max[c[1]][c[2]] = clip.level.best_max[c[1]][c[2]]
          /\ Less(clip.level.max_val[c[1]][c[2]], clip.best_max[c[1]][c[2]])
    /\ \E c \in Cells(clip.best_max) :
          /\ Less(clip.min_errs[c[1]][c[2]], clip.level.min_errs[c[1]][c[2]])
          /\ clip.best_max[c[1]][c[2]] # clip.level.best_max[c[1]][c[2]]

\* The first shrink level whose bound is the returned one.
ReturnedLevel(r, g) ==
    CHOOSE i_s \in 0..(ShrinkLevels(clip.n_grid) - 1) :
        /\ Mul(OrgMaxVal(clip, r, g), ShrinkFactor(i_s, clip.n_grid))
              = clip.result.max[r][g]
        /\ \A j \in 0..(i_s - 1) :
              Mul(OrgMaxVal(clip, r, g), ShrinkFactor(j, clip.n_grid))
                 # clip.result.max[r][g]

ClipResultSound ==
    /\ Len(clip.result.max) = clip.rows
    /\ \A r \in 1..clip.rows, g \in 1..NumGroups(clip) :
          /\ LessEq(clip.result.max[r][g], OrgMaxVal(clip, r, g))
          /\ LET e0 == ErrMean(clip, 0, r, g)
                 eb == ErrMean(clip, ReturnedLevel(r, g), r, g)
             IN  IsNaN(e0) \/ LessEq(eb, e0)

\* C9, as claimed: a symmetric search over a weight with any number of
\* output rows and at least one captured input returns one best_max per
\* channel and group, none above the unclipped absolute maximum, with an
\* error at the returned bound no larger than at the unclipped bound.
C9_ClipSearchResult ==
    (clip # <<>> /\ clip.pc = "done" /\ clip.sym /\ clip.version \in {"v1", "v2"})
    => /\ clip.err = "ok"
       /\ ClipResultSound

-----------------------------------------------------------------------------
(* Mixed-bit allocation: alloc_bits.                                       *)
(*                                                                         *)
(* A selector is a string, modelled as its sequence of characters.         *)

\* self.num_blocks
NumBlocks == 3

\* settings in quant_config['mix_bits']
MaxSettings == 2

Digits == <<"0", "1", "2", "3", "4", "5", "6", "7", "8", "9">>

IsDigit(ch) == \E d \in 1..10 : Digits[d] = ch

DigitVal(ch) == (CHOOSE d \in 1..10 : Digits[d] = ch) - 1

RECURSIVE DecValue(_)
DecValue(s) ==
    IF s = <<>> THEN 0
    ELSE 10 * DecValue(SubSeq(s, 1, Len(s) - 1)) + DigitVal(s[Len(s)])

\* str.split(sep): the pieces between the separators, empty ones kept
RECURSIVE Split(_, _)
Split(s, sep) ==
    IF \A p \in 1..Len(s) : s[p] # sep THEN <<s>>
    ELSE LET p == CHOOSE q \in 1..Len(s) :
                     s[q] = sep /\ \A r \in 1..(q - 1) : s[r] # sep
         IN  <<SubSeq(s, 1, p - 1)>> \o Split(SubSeq(s, p + 1, Len(s)), sep)

\* int(s): an optional sign and decimal digits; anything else raises
\* ValueError.  (Blanks and underscores are not in the alphabet used.)
ParseInt(s) ==
    LET signed == s # <<>> /\ s[1] \in {"+", "-"}
        body == IF signed THEN Tail(s) ELSE s
    IN  IF body = <<>> \/ \E p \in 1..Len(body) : ~IsDigit(body[p])
        THEN [ok |-> FALSE, val |-> 0]
        ELSE [ok |-> TRUE,
              val |-> IF signed /\ s[1] = "-" THEN -DecValue(body)
                      ELSE DecValue(body)]

\* Mutant of MapAssign: an entry already present is kept.
MapAssignKeepFirst(m, n, i) ==
    IF n \in DOMAIN m THEN m ELSE [x \in DOMAIN m \cup {n} |-> IF x = n THEN i ELSE m[x]]

\* self.mix_bits_map[k][n] = i
MapAssign(m, n, i) == [x \in DOMAIN m \cup {n} |-> IF x = n THEN i ELSE m[x]]

EmptyMap == [x \in {} |-> 0]

\* for k in layeridx: self.mix_bits_map[k][n] = i, list indices as Python
\* resolves them; the first index out of range raises IndexError after the
\* earlier ones were assigned.
RECURSIVE AssignBlocks(_, _, _, _)
AssignBlocks(map, idx, n, i) ==
    IF idx = <<>> THEN [err |-> "ok", map |-> map]
    ELSE LET k == idx[1]
             at == IF k < 0 THEN k + Len(map) + 1 ELSE k + 1
         IN  IF at < 1 \/ at > Len(map) THEN [err |-> "IndexError", map |-> map]
             ELSE AssignBlocks([map EXCEPT ![at] = MapAssign(map[at], n, i)],
                               Tail(idx), n, i)

\* The body of `for name in layer_name` for one selector.
AssignSelector(map, name, i) ==
    LET n_layeridx == Split(name, "#")
    IN  IF Len(n_layeridx) \notin {1, 2} THEN [err |-> "AssertionError", map |-> map]
        ELSE IF Len(n_layeridx) = 2
        THEN LET parts == Split(n_layeridx[2], "-")
                 ints == [p \in 1..Len(parts) |-> ParseInt(parts[p])]
             IN  IF \E p \in 1..Len(parts) : ~ints[p].ok
                 THEN [err |-> "ValueError", map |-> map]
                 ELSE AssignBlocks(map, [p \in 1..Len(parts) |-> ints[p].val],
                                   n_layeridx[1], i)
        ELSE AssignBlocks(map, [k \in 1..Len(map) |-> k - 1], n_layeridx[1], i)

\* The entry appended to quantizer_mix_bits for one setting.
QuantizerEntry(setting) ==
    IF setting.do_quant
    THEN [layer_name |-> setting.layer_name, do_quant |-> TRUE,
          w_only_mix_bits |-> ~setting.act]
    ELSE [layer_name |-> setting.layer_name, do_quant |-> FALSE]

Sel_a == <<"a">>
Sel_b == <<"b">>
Sel_a02 == <<"a", "#", "0", "-", "2">>
Sel_a1 == <<"a", "#", "1">>
Sel_a2 == <<"a", "#", "2">>
Sel_b1 == <<"b", "#", "1">>
Sel_a12 == <<"a", "#", "1", "2">>
Sel_aLast == <<"a", "#", Digits[NumBlocks + 1]>>
Sel_two == <<"a", "#", "b", "#", "0">>
Sel_word == <<"a", "#", "x">>
Sel_none == <<"a", "#">>
Sel_plus == <<"a", "#", "+", "1">>

Selectors ==
    {Sel_a, Sel_b, Sel_a02, Sel_a1, Sel_a2, Sel_b1, Sel_a12, Sel_aLast,
     Sel_two, Sel_word, Sel_none, Sel_plus}

\* the values of setting['layer_name']
LayerNameLists ==
    {<<x>> : x \in Selectors}
    \cup {<<Sel_a, Sel_b1>>, <<Sel_a02, Sel_a1>>, <<Sel_a1, Sel_a>>,
          <<Sel_b, Sel_a02>>, <<Sel_a02, Sel_word>>}

\* do_quant false; do_quant with 'weight' only; do_quant with 'act' too
SettingKinds ==
    <<[do_quant |-> FALSE, act |-> FALSE], [do_quant |-> TRUE, act |-> FALSE],
      [do_quant |-> TRUE, act |-> TRUE]>>

MixInit ==
    \E n \in 1..MaxSettings, k0 \in 0..2 :
       \E names \in [1..n -> LayerNameLists] :
          mix = [settings |->
                    [i \in 1..n |->
                        [layer_name |-> names[i],
                         do_quant |-> SettingKinds[((k0 + i) % 3) + 1].do_quant,
                         act |-> SettingKinds[((k0 + i) % 3) + 1].act]],
                 quantizer_mix_bits |-> <<>>,
                 mix_bits_map |-> [b \in 1..NumBlocks |-> EmptyMap],
                 pc |-> "build", i |-> 0, j |-> 0, err |-> "ok"]

\* One pass of the first loop of alloc_bits.
AllocBuild ==
    /\ mix # <<>>
    /\ mix.pc = "build"
    /\ mix' = IF mix.i < Len(mix.settings)
              THEN [mix EXCEPT
                      !.quantizer_mix_bits =
                          Append(mix.quantizer_mix_bits,
                                 QuantizerEntry(mix.settings[mix.i + 1])),
                      !.i = mix.i + 1]
              ELSE [mix EXCEPT !.pc = "assign", !.i = 0, !.j = 0]
    /\ UNCHANGED <<scaleVars, rotVars, clipVars, laterVars>>

\* One selector of the second loop of alloc_bits.
AllocAssign ==
    /\ mix # <<>>
    /\ mix.pc = "assign"
    /\ mix.i < Len(mix.quantizer_mix_bits)
    /\ LET layer_name == mix.quantizer_mix_bits[mix.i + 1].layer_name
       IN  mix' =
             IF mix.j = Len(layer_name)
             THEN [mix EXCEPT !.i = mix.i + 1, !.j = 0]
             ELSE LET r == AssignSelector(mix.mix_bits_map,
                                          layer_name[mix.j + 1], mix.i)
                  IN  IF r.err = "ok"
                      THEN [mix EXCEPT !.mix_bits_map = r.map, !.j = mix.j + 1]
                      ELSE [mix EXCEPT !.mix_bits_map = r.map, !.err = r.err,
                                       !.pc = "done"]
    /\ UNCHANGED <<scaleVars, rotVars, clipVars, laterVars>>

\* alloc_bits returns.
AllocReturn ==
    /\ mix # <<>>
    /\ mix.pc = "assign"
    /\ mix.i = Len(mix.quantizer_mix_bits)
    /\ mix' = [mix EXCEPT !.pc = "done"]
    /\ UNCHANGED <<scaleVars, rotVars, clipVars, laterVars>>

InitMix == ScaleIdle /\ RotIdle /\ ClipIdle /\ MixInit /\ LaterIdle

NextMix == AllocBuild \/ AllocAssign \/ AllocReturn

SpecMix == InitMix /\ [][NextMix]_vars

-----------------------------------------------------------------------------
(* C10: content of mix_bits_map after alloc_bits                           *)

AllocDone == mix # <<>> /\ mix.pc = "done" /\ mix.err = "ok"

HashAt(sel) == {p \in 1..Len(sel) : sel[p] = "#"}

\* The name part of a selector: the text before the first '#'.
NameOf(sel) ==
    IF HashAt(sel) = {} THEN sel
    ELSE SubSeq(sel, 1, (CHOOSE p \in HashAt(sel) : \A q \in HashAt(sel) : p <= q) - 1)

\* sel[from..to] is one index of the selector: decimal digits, possibly
\* after a '+', delimited by '#', '-' or the end of the selector.
IndexGroup(sel, from, to) ==
    LET first == IF sel[from] = "+" THEN from + 1 ELSE from
    IN  /\ first <= to
        /\ \A p \in first..to : IsDigit(sel[p])
        /\ sel[from - 1] \in {"#", "-"}
        /\ to = Len(sel) \/ sel[to + 1] = "-"

GroupValue(sel, from, to) ==
    DecValue(SubSeq(sel, IF sel[from] = "+" THEN from + 1 ELSE from, to))

\* name#i-j-k: one '#', then integers joined by '-'.
Indexed(sel) ==
    /\ Cardinality(HashAt(sel)) = 1
    /\ LET h == CHOOSE p \in HashAt(sel) : TRUE
       IN  /\ h < Len(sel)
           /\ \A p \in (h + 1)..Len(sel) :
                 \/ \E from \in (h + 1)..p, to \in p..Len(sel) : IndexGroup(sel, from, to)
                 \/ sel[p] = "-" /\ p > h + 1 /\ p < Len(sel) /\ sel[p - 1] # "-"

\* Selector sel covers (block b, layer name n).
Covers(sel, b, n) ==
    /\ NameOf(sel) = n
    /\ \/ HashAt(sel) = {}
       \/ /\ Indexed(sel)
          /\ \E from \in 2..Len(sel), to \in 2..Len(sel) :
                /\ from <= to
                /\ IndexGroup(sel, from, to)
                /\ GroupValue(sel, from, to) = b

CoveringSettings(b, n) ==
    {i \in 0..(Len(mix.settings) - 1) :
        \E j \in 1..Len(mix.settings[i + 1].layer_name) :
           Covers(mix.settings[i + 1].layer_name[j], b, n)}

SetMax(S) == CHOOSE x \in S : \A y \in S : y <= x

LayerNames == {NameOf(sel) : sel \in Selectors}

\* C10: once alloc_bits has returned, for every block b and layer name n,
\* mix_bits_map[b][n] is the index of the last setting with a selector
\* covering (b, n) -- a bare n covers every block, n#i-j-k covers blocks
\* i, j and k -- and n is no key of mix_bits_map[b] when no selector
\* covers (b, n).
C10_MixBitMapContent ==
    AllocDone =>
        \A b \in 0..(NumBlocks - 1), n \in LayerNames :
           LET cov == CoveringSettings(b, n)
               m == mix.mix_bits_map[b + 1]
           IN  IF cov = {} THEN n \notin DOMAIN m
               ELSE n \in DOMAIN m /\ m[n] = SetMax(cov)

\* alloc_bits returned for two settings: the later one overrides the
\* earlier on some block, and an indexed selector left another block
\* without the key while a third name has no key anywhere.
C10_Witness ==
    /\ AllocDone
    /\ Len(mix.settings) = 2
    /\ \E b \in 0..(NumBlocks - 1) :
          /\ CoveringSettings(b, Sel_a) = {0, 1}
          /\ mix.mix_bits_map[b + 1][Sel_a] = 1
    /\ \E b \in 0..(NumBlocks - 1) :
          /\ CoveringSettings(b, Sel_a) = {0}
          /\ mix.mix_bits_map[b + 1][Sel_a] = 0
    /\ \E b \in 0..(NumBlocks - 1) :
          /\ CoveringSettings(b, Sel_a) = {}
          /\ Sel_a \notin DOMAIN mix.mix_bits_map[b + 1]

-----------------------------------------------------------------------------
(* C11: malformed selectors                                                *)

\* A bare name, or name# followed by groups of decimal digits joined by '-'.
WellFormedSelector(sel) ==
    \/ HashAt(sel) = {}
    \/ /\ Indexed(sel)
       /\ \A p \in 1..Len(sel) : sel[p] # "+"

MalformedListed ==
    \E i \in 1..Len(mix.settings) :
       \E j \in 1..Len(mix.settings[i].layer_name) :
          ~WellFormedSelector(mix.settings[i].layer_name[j])

\* C11: when some selector of some setting is neither a bare name nor
\* name# followed by dash-separated digit groups, alloc_bits does not
\* return normally: it ends with an error.
C11_MalformedSelectorFatal ==
    (mix # <<>> /\ mix.pc = "done" /\ MalformedListed) => mix.err # "ok"

-----------------------------------------------------------------------------
(* Construction and the block pipeline: __init__, set_quant_config,        *)
(* block_opt.                                                              *)
(*                                                                         *)
(* block_opt is called once per block, in order, by the block loop of the  *)
(* parent class.  subset_transform, and the one-argument block_transform   *)
(* that data-free algorithms supply, belong to the concrete algorithm; the *)
(* transform is modelled by what this class contributes to it: auto_clip   *)
(* when weight clipping is configured.                                     *)

\* blocks handed to block_opt
MaxBlocks == 2

ClipVersions == {"v1", "v2", "v3"}

CalibAlgos == {"learnable", "minmax"}

RunInit ==
    \E cv \in ClipVersions, ca \in CalibAlgos,
       wc \in BOOLEAN, df \in BOOLEAN, qo \in BOOLEAN :
       run = [clip_version |-> cv, calib_algo |-> ca, weight_clip |-> wc,
              data_free |-> df, quant_out |-> qo,
              phase |-> "init", err |-> "ok", pc |-> "idle", block_idx |-> 0,
              on_device |-> {}, input_feat |-> {}, handles |-> {},
              clipped |-> {}, replaced |-> {}, steps |-> <<>>, calls |-> <<>>]

Step(name) == Append(run.steps, [step |-> name, handles |-> run.handles])

\* __init__ -> set_quant_config: the only check on clip_version is the
\* assert that v2 comes with a learnable calibration algorithm.
SetQuantConfig ==
    /\ run # <<>>
    /\ run.phase = "init"
    /\ run' = IF run.clip_version = "v2" /\ run.calib_algo # "learnable"
              THEN [run EXCEPT !.phase = "failed", !.err = "AssertionError"]
              ELSE [run EXCEPT !.phase = "ready"]
    /\ UNCHANGED <<scaleVars, rotVars, clipVars, mixVars, dist, rot_wrap>>

InBlockOpt(at) == run # <<>> /\ run.phase = "ready" /\ run.err = "ok" /\ run.pc = at

\* block = block.cuda(); input_feat = defaultdict(list); handles = []
BlockOptEnter ==
    /\ InBlockOpt("idle")
    /\ run.block_idx < MaxBlocks
    /\ run' = [run EXCEPT !.pc = "cuda",
                          !.on_device = run.on_device \cup {run.block_idx},
                          !.steps = <<[step |-> "cuda", handles |-> {}]>>]
    /\ UNCHANGED <<scaleVars, rotVars, clipVars, mixVars, dist, rot_wrap>>

\* register_forward_hook on every named linear
AttachHooks ==
    /\ InBlockOpt("cuda")
    /\ ~run.data_free
    /\ run' = [run EXCEPT !.pc = "hooked",
                          !.handles = {"fc1", "fc2"},
                          !.steps = Append(run.steps,
                                           [step |-> "attach", handles |-> {"fc1", "fc2"}])]
    /\ UNCHANGED <<scaleVars, rotVars, clipVars, mixVars, dist, rot_wrap>>

\* block_forward(block) with the hooks filling input_feat
FirstForward ==
    /\ InBlockOpt("hooked")
    /\ run' = [run EXCEPT !.pc = "forwarded",
                          !.input_feat = run.input_feat \cup {run.block_idx},
                          !.steps = Step("forward")]
    /\ UNCHANGED <<scaleVars, rotVars, clipVars, mixVars, dist, rot_wrap>>

\* for h in handles: h.remove()
DetachHooks ==
    /\ InBlockOpt("forwarded")
    /\ run' = [run EXCEPT !.pc = "detached", !.handles = {},
                          !.steps = Append(run.steps,
                                           [step |-> "detach", handles |-> {}])]
    /\ UNCHANGED <<scaleVars, rotVars, clipVars, mixVars, dist, rot_wrap>>

\* The outcome of auto_clip inside the transform: auto_clip_layer and
\* apply_clip raise Exception for a version other than v1 and v2.
ClipOutcome(version) == IF version \in {"v1", "v2"} THEN "ok" ELSE "Exception"

\* block_transform
BlockTransform ==
    /\ \/ InBlockOpt("detached")
       \/ InBlockOpt("cuda") /\ run.data_free
    /\ run' =
         IF run.weight_clip /\ ~run.data_free
         THEN IF ClipOutcome(run.clip_version) = "ok"
              THEN [run EXCEPT !.pc = "transformed",
                               !.clipped = run.clipped \cup {run.block_idx},
                               !.steps = Step("transform")]
              ELSE [run EXCEPT !.pc = "raised",
                               !.err = ClipOutcome(run.clip_version),
                               !.steps = Step("transform")]
         ELSE [run EXCEPT !.pc = "transformed", !.steps = Step("transform")]
    /\ UNCHANGED <<scaleVars, rotVars, clipVars, mixVars, dist, rot_wrap>>

\* Variant of NeedsReplace: the replacement made in every run.
NeedsReplaceAlways(df, qo) == TRUE

\* if not data_free and quant_out: replace_module_block(FakeQuantLinear, ...)
NeedsReplace(df, qo) == ~df /\ qo

ReplaceBlock ==
    /\ InBlockOpt("transformed")
    /\ NeedsReplace(run.data_free, run.quant_out)
    /\ run' = [run EXCEPT !.pc = "replaced",
                          !.replaced = run.replaced \cup {run.block_idx},
                          !.steps = Step("replace")]
    /\ UNCHANGED <<scaleVars, rotVars, clipVars, mixVars, dist, rot_wrap>>

\* self.input['data'] = self.block_forward(block)
SecondForward ==
    /\ InBlockOpt("replaced")
    /\ run' = [run EXCEPT !.pc = "forwarded2", !.steps = Step("forward2")]
    /\ UNCHANGED <<scaleVars, rotVars, clipVars, mixVars, dist, rot_wrap>>

\* Variant of MoveOff: the block stays where it is.
MoveOffSkipped(on_device, b) == on_device

\* block = block.cpu(): the blocks left on the device
MoveOff(on_device, b) == on_device \ {b}

\* block = block.cpu(); del input_feat; gc.collect(); empty_cache()
BlockOptReturn ==
    /\ \/ InBlockOpt("forwarded2")
       \/ InBlockOpt("transformed") /\ ~NeedsReplace(run.data_free, run.quant_out)
    /\ run' = [run EXCEPT !.pc = "idle",
                          !.on_device = MoveOff(run.on_device, run.block_idx),
                          !.input_feat = run.input_feat \ {run.block_idx},
                          !.block_idx = run.block_idx + 1,
                          !.calls = Append(run.calls, Step("cpu")),
                          !.steps = <<>>]
    /\ UNCHANGED <<scaleVars, rotVars, clipVars, mixVars, dist, rot_wrap>>

InitRun ==
    /\ ScaleIdle /\ RotIdle /\ ClipIdle /\ MixIdle
    /\ RunInit /\ dist = <<>> /\ rot_wrap = <<>>

NextRun ==
    \/ SetQuantConfig
    \/ BlockOptEnter
    \/ AttachHooks
    \/ FirstForward
    \/ DetachHooks
    \/ BlockTransform
    \/ ReplaceBlock
    \/ SecondForward
    \/ BlockOptReturn

SpecRun == InitRun /\ [][NextRun]_vars

-----------------------------------------------------------------------------
(* C12: an unrecognized clip version                                       *)

\* C12: a configuration whose clip_version is neither v1 nor v2 is rejected
\* by set_quant_config: construction never completes with it, so no step of
\* block_opt runs under it.
C12_ClipVersionRejected ==
    (run # <<>> /\ run.clip_version \notin {"v1", "v2"} /\ run.phase # "init")
        => (run.phase = "failed" /\ run.steps = <<>> /\ run.on_device = {})

-----------------------------------------------------------------------------
(* Module names.  A name is the sequence of its characters; `p in n` is    *)
(* the substring test.                                                     *)

Contains(n, p) ==
    \E k \in 0..(Len(n) - Len(p)) : SubSeq(n, k + 1, k + Len(p)) = p

N_q_proj == <<"q", "_", "p", "r", "o", "j">>
N_k_proj == <<"k", "_", "p", "r", "o", "j">>
N_v_proj == <<"v", "_", "p", "r", "o", "j">>
N_o_proj == <<"o", "_", "p", "r", "o", "j">>
N_down_proj == <<"d", "o", "w", "n", "_", "p", "r", "o", "j">>
N_up_proj == <<"u", "p", "_", "p", "r", "o", "j">>
N_fc2 == <<"f", "c", "2">>
N_out_proj == <<"o", "u", "t", "_", "p", "r", "o", "j">>
N_Wqkv == <<"W", "q", "k", "v">>
N_query == <<"q", "u", "e", "r", "y">>
N_key == <<"k", "e", "y">>
N_norm == <<"n", "o", "r", "m">>

-----------------------------------------------------------------------------
(* auto_clip of one block on several workers.                              *)
(*                                                                         *)
(* Every worker walks block.named_modules() in the same order.  A worker   *)
(* inside dist.all_reduce is blocked until every worker of the group is    *)
(* inside its own next collective; the collective then completes on all of *)
(* them with the sum of what each contributed.                             *)

\* WORLD_SIZE
NumWorkers == 2

Workers == 1..NumWorkers

\* n_sample_token handed to auto_clip
SampleTokens == 2

\* token positions a worker's captured input can have
TokenCounts == {1, 4}

Module(n, lin, dq) == [name |-> n, linear |-> lin, do_quant |-> dq]

\* block.named_modules() with check_do_quant of each module
BlockLayouts ==
    {<<Module(N_norm, FALSE, TRUE), Module(N_q_proj, TRUE, TRUE),
       Module(N_v_proj, TRUE, TRUE), Module(N_down_proj, TRUE, TRUE)>>,
     <<Module(N_Wqkv, TRUE, TRUE), Module(N_out_proj, TRUE, FALSE),
       Module(N_fc2, TRUE, TRUE)>>,
     <<Module(N_key, TRUE, TRUE), Module(N_k_proj, TRUE, FALSE),
       Module(N_query, FALSE, TRUE), Module(N_up_proj, TRUE, TRUE)>>}

\* Variant of IsQueryKey: only the fused projection is recognised.
IsQueryKeyFusedOnly(n) == Contains(n, N_Wqkv)

\* any([_ in n for _ in ['q_', 'k_', 'query', 'key', 'Wqkv']])
IsQueryKey(n) ==
    \/ Contains(n, <<"q", "_">>)
    \/ Contains(n, <<"k", "_">>)
    \/ Contains(n, N_query)
    \/ Contains(n, N_key)
    \/ Contains(n, N_Wqkv)

\* The bounds a worker's own search finds for a layer: they depend on the
\* worker's captured inputs.
LocalMax(w, tokens, idx) == R(2 * idx + w + tokens)

LocalMin(w, tokens, idx) == R(0 - (idx + 2 * w + tokens))

\* auto_clip_layer on the worker's inputs: the slice x[:, 0:: T // n]
\* raises ValueError when T // n is 0.
SearchOutcome(tokens) == IF tokens \div SampleTokens = 0 THEN "ValueError" ELSE "ok"

\* max_val /= int(os.environ['WORLD_SIZE']) after the SUM all-reduce
Averaged(total) == Div(total, R(NumWorkers))

DistInit ==
    \E layout \in BlockLayouts, cv \in {"v1", "v2"},
       tokens \in [Workers -> TokenCounts] :
       dist = [modules |-> layout, clip_version |-> cv,
               workers |->
                  [w \in Workers |->
                      [pc |-> "loop", idx |-> 1, tokens |-> tokens[w],
                       err |-> "ok", max_val |-> Zero, min_val |-> Zero,
                       on_cuda |-> {}, searched |-> {}, clipped |-> {},
                       buffers |-> [i \in 1..Len(layout) |-> "absent"],
                       applied |-> [i \in 1..Len(layout) |-> <<>>]]],
               reduces |-> <<>>]

\* One pass of `for n, m in block.named_modules()` up to the first
\* all_reduce, on worker w.
AutoClipLayerStep(w) ==
    /\ dist # <<>>
    /\ dist.workers[w].pc = "loop"
    /\ LET me == dist.workers[w]
           i == me.idx
       IN  dist' =
             IF i > Len(dist.modules)
             THEN [dist EXCEPT !.workers[w].pc = "done"]
             ELSE LET mod == dist.modules[i]
                  IN  IF ~mod.do_quant \/ ~mod.linear
                      THEN [dist EXCEPT !.workers[w].idx = i + 1]
                      ELSE IF IsQueryKey(mod.name)
                      THEN [dist EXCEPT
                              !.workers[w].idx = i + 1,
                              !.workers[w].on_cuda = me.on_cuda \cup {i},
                              !.workers[w].buffers[i] =
                                  IF dist.clip_version = "v2" THEN "null"
                                  ELSE me.buffers[i]]
                      ELSE IF SearchOutcome(me.tokens) # "ok"
                      THEN [dist EXCEPT
                              !.workers[w].pc = "raised",
                              !.workers[w].err = SearchOutcome(me.tokens),
                              !.workers[w].on_cuda = me.on_cuda \cup {i},
                              !.workers[w].searched = me.searched \cup {i}]
                      ELSE [dist EXCEPT
                              !.workers[w].pc = "all_reduce_max",
                              !.workers[w].on_cuda = me.on_cuda \cup {i},
                              !.workers[w].searched = me.searched \cup {i},
                              !.workers[w].max_val = LocalMax(w, me.tokens, i),
                              !.workers[w].min_val = LocalMin(w, me.tokens, i)]
    /\ UNCHANGED <<scaleVars, rotVars, clipVars, mixVars, run, rot_wrap>>

InCollective(w) == dist.workers[w].pc \in {"all_reduce_max", "all_reduce_min"}

\* What worker w handed to the collective it is blocked in.
Contribution(w) ==
    IF dist.workers[w].pc = "all_reduce_max" THEN dist.workers[w].max_val
    ELSE dist.workers[w].min_val

RECURSIVE SumOver(_, _)
SumOver(f, n) == IF n = 0 THEN Zero ELSE Add(SumOver(f, n - 1), f[n])

\* dist.all_reduce(..., op=SUM) completing on every worker, followed on each
\* by the division by WORLD_SIZE.
AllReduce ==
    /\ dist # <<>>
    /\ \A w \in Workers : InCollective(w)
    /\ LET total == SumOver([w \in Workers |-> Contribution(w)], NumWorkers)
       IN  dist' =
             [dist EXCEPT
                !.workers =
                   [w \in Workers |->
                      IF dist.workers[w].pc = "all_reduce_max"
                      THEN [dist.workers[w] EXCEPT
                              !.max_val = Averaged(total), !.pc = "all_reduce_min"]
                      ELSE [dist.workers[w] EXCEPT
                              !.min_val = Averaged(total), !.pc = "apply"]],
                !.reduces =
                   Append(dist.reduces,
                          [w \in Workers |->
                             [idx |-> dist.workers[w].idx,
                              kind |-> dist.workers[w].pc,
                              value |-> Contribution(w)]])]
    /\ UNCHANGED <<scaleVars, rotVars, clipVars, mixVars, run, rot_wrap>>

\* self.apply_clip(m, min_val, max_val, n) on worker w
ApplyClip(w) ==
    /\ dist # <<>>
    /\ dist.workers[w].pc = "apply"
    /\ LET me == dist.workers[w]
           i == me.idx
       IN  dist' =
             [dist EXCEPT
                !.workers[w].pc = "loop",
                !.workers[w].idx = i + 1,
                !.workers[w].applied[i] = <<me.max_val, me.min_val>>,
                !.workers[w].clipped =
                    IF dist.clip_version = "v1" THEN me.clipped \cup {i}
                    ELSE me.clipped,
                !.workers[w].buffers[i] =
                    IF dist.clip_version = "v2" THEN "factor" ELSE me.buffers[i]]
    /\ UNCHANGED <<scaleVars, rotVars, clipVars, mixVars, run, rot_wrap>>

InitDist ==
    /\ ScaleIdle /\ RotIdle /\ ClipIdle /\ MixIdle
    /\ run = <<>> /\ DistInit /\ rot_wrap = <<>>

NextDist ==
    \/ \E w \in Workers : AutoClipLayerStep(w)
    \/ AllReduce
    \/ \E w \in Workers : ApplyClip(w)

SpecDist == InitDist /\ [][NextDist]_vars

-----------------------------------------------------------------------------
(* C13: the bounds applied on the workers                                  *)

AppliedAt(w) == {i \in 1..Len(dist.modules) : dist.workers[w].applied[i] # <<>>}

LocalMaxOf(i) == [w \in Workers |-> LocalMax(w, dist.workers[w].tokens, i)]

LocalMinOf(i) == [w \in Workers |-> LocalMin(w, dist.workers[w].tokens, i)]

\* Every bound pair handed to apply_clip is the workers' local bounds summed
\* and divided by the number of workers.
BoundsAveraged ==
    \A w \in Workers : \A i \in AppliedAt(w) :
       dist.workers[w].applied[i] =
          <<Div(SumOver(LocalMaxOf(i), NumWorkers), R(NumWorkers)),
            Div(SumOver(LocalMinOf(i), NumWorkers), R(NumWorkers))>>

\* Every completed all-reduce combined the same bound of the same layer.
ReducesPaired ==
    \A k \in 1..Len(dist.reduces) : \A v, w \in Workers :
       /\ dist.reduces[k][v].idx = dist.reduces[k][w].idx
       /\ dist.reduces[k][v].kind = dist.reduces[k][w].kind

\* A worker is inside a collective that a worker which has left auto_clip
\* will never join.
Stranded ==
    \E v, w \in Workers :
       InCollective(v) /\ dist.workers[w].pc \in {"raised", "done"}

\* C13: on workers clipping the same block with possibly different captured
\* inputs, the bounds handed to apply_clip are the same on every worker and
\* are the workers' local bounds summed and divided by the number of
\* workers, every all-reduce pairs the same bound of the same layer, and no
\* worker is left blocked in a collective.
C13_DistributedClip ==
    dist # <<>> => (BoundsAveraged /\ ReducesPaired /\ ~Stranded)

-----------------------------------------------------------------------------
(* C16: query/key projections in auto_clip                                 *)

\* The linear modules whose name marks a query/key projection.
QueryKeyMarks == {<<"q", "_">>, <<"k", "_">>, N_query, N_key, N_Wqkv}

QueryKeyLayers ==
    {i \in 1..Len(dist.modules) :
        /\ dist.modules[i].linear
        /\ \E p \in QueryKeyMarks : Contains(dist.modules[i].name, p)}

\* Worker w has gone past module i of the block.
Passed(w, i) == dist.workers[w].idx > i \/ dist.workers[w].pc = "done"

\* No search, no all-reduce and no clamp for layer i on worker w.
NotClipped(w, i) ==
    /\ i \notin dist.workers[w].searched
    /\ i \notin dist.workers[w].clipped
    /\ dist.workers[w].applied[i] = <<>>
    /\ \A k \in 1..Len(dist.reduces) : dist.reduces[k][w].idx # i

\* C16 as stated: for both clip versions every query/key linear layer is
\* exempted from clipping and ends with both bound buffers registered as
\* null.
C16_QueryKeyNullBuffers ==
    dist # <<>> =>
       \A w \in Workers : \A i \in QueryKeyLayers :
          /\ NotClipped(w, i)
          /\ Passed(w, i) => dist.workers[w].buffers[i] = "null"

\* C16 amended: for both clip versions every query/key linear layer is
\* exempted from clipping; it ends with the bound buffers registered as
\* null under v2 when the layer is quantized, and with no bound buffer
\* registered under v1 or when the layer is set to float.
C16_QueryKeyExempt ==
    dist # <<>> =>
       \A w \in Workers : \A i \in QueryKeyLayers :
          /\ NotClipped(w, i)
          /\ Passed(w, i) =>
                dist.workers[w].buffers[i] =
                   IF dist.clip_version = "v2" /\ dist.modules[i].do_quant
                   THEN "null" ELSE "absent"
          /\ ~Passed(w, i) => dist.workers[w].buffers[i] = "absent"

\* Under v2 a worker has finished a block in which it skipped a quantized
\* query projection, leaving null buffers, and clipped another layer.
C16_Witness ==
    /\ dist # <<>>
    /\ dist.clip_version = "v2"
    /\ \E w \in Workers :
          /\ dist.workers[w].pc = "done"
          /\ \E i \in QueryKeyLayers :
                /\ dist.modules[i].do_quant
                /\ i \in dist.workers[w].on_cuda
                /\ dist.workers[w].buffers[i] = "null"
          /\ \E i \in 1..Len(dist.modules) : dist.workers[w].buffers[i] = "factor"

-----------------------------------------------------------------------------
(* C14: the order of the steps of block_opt                                *)

StepNames(steps) == [k \in 1..Len(steps) |-> steps[k].step]

IsPrefix(a, b) == Len(a) <= Len(b) /\ SubSeq(b, 1, Len(a)) = a

CaptureSteps(df) ==
    IF df THEN <<"cuda">> ELSE <<"cuda", "attach", "forward", "detach">>

\* The order as stated: the replacement in every run, the second forward
\* pass whenever quantized outputs are needed.
OrderAsStated(df, qo) ==
    CaptureSteps(df) \o <<"transform", "replace">>
       \o (IF qo THEN <<"forward2">> ELSE <<>>) \o <<"cpu">>

\* The order of the code: replacement and second forward pass together, and
\* only outside data-free mode when quantized outputs are needed.
OrderOfCode(df, qo) ==
    CaptureSteps(df) \o <<"transform">>
       \o (IF ~df /\ qo THEN <<"replace", "forward2">> ELSE <<>>) \o <<"cpu">>

\* No capture callback is attached while the transform, the replacement or
\* the second forward pass runs.
NoHooksLate(steps) ==
    \A k \in 1..Len(steps) :
       steps[k].step \in {"transform", "replace", "forward2", "cpu"}
          => steps[k].handles = {}

RunsFollow(Order(_, _)) ==
    run # <<>> =>
       /\ \A c \in 1..Len(run.calls) :
             /\ StepNames(run.calls[c]) = Order(run.data_free, run.quant_out)
             /\ NoHooksLate(run.calls[c])
       /\ IsPrefix(StepNames(run.steps), Order(run.data_free, run.quant_out))
       /\ NoHooksLate(run.steps)

\* C14 as stated: every run of block_opt goes move-to-device, (outside
\* data-free mode) attach, forward, detach, then transform, then
\* replacement, then (when quant_out) a second forward pass, then
\* move-off-device, with no callback attached from the transform on.
C14_PipelineOrderStated == RunsFollow(OrderAsStated)

\* C14 amended: the replacement and the second forward pass happen only
\* outside data-free mode with quant_out, the replacement immediately
\* before the second forward pass; every other step is as stated.
C14_PipelineOrder == RunsFollow(OrderOfCode)

\* With capture, weight clipping and quantized outputs every block has been
\* through all eight steps, the replacement included.
C14_Witness ==
    /\ run # <<>>
    /\ Len(run.calls) = MaxBlocks
    /\ ~run.data_free
    /\ run.quant_out
    /\ run.weight_clip
    /\ Len(run.calls[1]) = 8
    /\ run.replaced = 0..(MaxBlocks - 1)

-----------------------------------------------------------------------------
(* C15: what the compute device holds                                      *)

\* C15: at every point at most one block's weights and at most one block's
\* captured inputs are on the compute device, and between calls of
\* block_opt neither is held.
C15_DeviceResidency ==
    run # <<>> =>
       /\ Cardinality(run.on_device) <= 1
       /\ Cardinality(run.input_feat) <= 1
       /\ run.pc = "idle" => (run.on_device = {} /\ run.input_feat = {})

\* The second block is on the device with its captured inputs after the
\* first call returned.
C15_Witness ==
    /\ run # <<>>
    /\ Len(run.calls) = 1
    /\ run.pc = "detached"
    /\ run.on_device = {1}
    /\ run.input_feat = {1}

-----------------------------------------------------------------------------
(* Online rotation wrappers: replace_rotate_linears and                    *)
(* get_replacement_params(mode='online_rotate').                           *)
(*                                                                         *)
(* get_hadK belongs to hadamard_utils; only the size it is asked for is    *)
(* kept.                                                                   *)

\* model_config.hidden_size, num_attention_heads, intermediate_size
HiddenSizes == {4, 8}

HeadCounts == {1, 2}

IntermediateSizes == {8, 16}

\* block.named_modules(): name and isinstance(m, nn.Linear)
RotateLayouts ==
    {<<[name |-> N_norm, linear |-> FALSE], [name |-> N_q_proj, linear |-> TRUE],
       [name |-> N_o_proj, linear |-> TRUE], [name |-> N_up_proj, linear |-> TRUE],
       [name |-> N_down_proj, linear |-> TRUE]>>,
     <<[name |-> N_out_proj, linear |-> TRUE], [name |-> N_norm, linear |-> FALSE],
       [name |-> N_fc2, linear |-> TRUE]>>,
     <<[name |-> N_down_proj, linear |-> FALSE], [name |-> N_o_proj, linear |-> TRUE],
       [name |-> N_fc2, linear |-> TRUE], [name |-> N_down_proj, linear |-> TRUE]>>}

\* had_dim None; a had_dim of d is <<d>>
NoHadDim == <<>>

\* get_replacement_params(mode='online_rotate', name=name)
OnlineRotateParams(c, name) ==
    [had_size |-> IF Contains(name, N_down_proj) THEN c.intermediate_size
                  ELSE c.num_heads,
     online_full_had |-> Contains(name, N_down_proj),
     online_partial_had |-> Contains(name, N_o_proj),
     had_dim |-> IF Contains(name, N_down_proj) THEN NoHadDim
                 ELSE <<c.hidden_size \div c.num_heads>>]

\* the name test of replace_rotate_linears
IsRotateTarget(mod) ==
    /\ mod.linear
    /\ \/ Contains(mod.name, N_down_proj)
       \/ Contains(mod.name, N_o_proj)
       \/ Contains(mod.name, N_fc2)
       \/ Contains(mod.name, N_out_proj)

WrapInit ==
    \E layout \in RotateLayouts, h \in HiddenSizes, nh \in HeadCounts,
       im \in IntermediateSizes :
       rot_wrap = [modules |-> layout, hidden_size |-> h, num_heads |-> nh,
                   intermediate_size |-> im, idx |-> 1, pc |-> "loop",
                   params |-> [i \in 1..Len(layout) |-> <<>>]]

\* One pass of `for n, m in block.named_modules()`.
ReplaceRotateLinear ==
    /\ rot_wrap # <<>>
    /\ rot_wrap.pc = "loop"
    /\ rot_wrap.idx <= Len(rot_wrap.modules)
    /\ LET i == rot_wrap.idx
           mod == rot_wrap.modules[i]
       IN  rot_wrap' =
             IF IsRotateTarget(mod)
             THEN [rot_wrap EXCEPT !.idx = i + 1,
                                   !.params[i] = OnlineRotateParams(rot_wrap, mod.name)]
             ELSE [rot_wrap EXCEPT !.idx = i + 1]
    /\ UNCHANGED <<scaleVars, rotVars, clipVars, mixVars, run, dist>>

\* replace_rotate_linears returns.
ReplaceRotateReturn ==
    /\ rot_wrap # <<>>
    /\ rot_wrap.pc = "loop"
    /\ rot_wrap.idx > Len(rot_wrap.modules)
    /\ rot_wrap' = [rot_wrap EXCEPT !.pc = "done"]
    /\ UNCHANGED <<scaleVars, rotVars, clipVars, mixVars, run, dist>>

InitWrap ==
    /\ ScaleIdle /\ RotIdle /\ ClipIdle /\ MixIdle
    /\ run = <<>> /\ dist = <<>> /\ WrapInit

NextWrap == ReplaceRotateLinear \/ ReplaceRotateReturn

SpecWrap == InitWrap /\ [][NextWrap]_vars

-----------------------------------------------------------------------------
(* C17: the role given to each wrapped layer                               *)

Wrapped == {i \in 1..Len(rot_wrap.modules) : rot_wrap.params[i] # <<>>}

IsDownProjection(n) == Contains(n, N_down_proj) \/ Contains(n, N_fc2)

\* C17: every layer replaced by the online-rotation wrapper gets exactly one
\* of online_full_had and online_partial_had: full, with no had_dim and the
\* factor sized by intermediate_size, for a down-projection (down_proj,
\* fc2); partial, with had_dim = hidden_size // num_heads and the factor
\* sized by num_heads, for an output-projection (o_proj, out_proj).
C17_OnlineRotationRole ==
    rot_wrap # <<>> =>
       \A i \in Wrapped :
          LET p == rot_wrap.params[i]
          IN  /\ p.online_full_had # p.online_partial_had
              /\ IF IsDownProjection(rot_wrap.modules[i].name)
                 THEN /\ p.online_full_had
                      /\ p.had_dim = NoHadDim
                      /\ p.had_size = rot_wrap.intermediate_size
                 ELSE /\ p.online_partial_had
                      /\ p.had_dim = <<rot_wrap.hidden_size \div rot_wrap.num_heads>>
                      /\ p.had_size = rot_wrap.num_heads

-----------------------------------------------------------------------------
(* C18: token subsampling and the cached reference output                  *)

\* A shrink level of the current batch has gone through its inputs, or
\* failed on one.
LevelAttempted == clip # <<>> /\ (clip.level # <<>> \/ clip.err = "ValueError")

\* The reference output of every input was computed once in each batch
\* searched so far and is held for the later levels of the batch.
ReferenceCached ==
    /\ clip.org_out_dict = 1..clip.inputs
    /\ clip.org_out_runs =
          clip.inputs * (IF clip.pc = "level" THEN clip.i_b + 1 ELSE clip.i_b)

\* C18: for an input of T >= 1 token positions and n_sample_token n >= 1 the
\* slice x[:, 0:: T // n] succeeds and keeps exactly n positions, and the
\* reference output of each input is computed once and reused at the later
\* shrink levels.
C18_TokenSubsampling ==
    LevelAttempted =>
       /\ clip.err # "ValueError"
       /\ KeptTokens(clip.tokens, clip.n_sample_token) = clip.n_sample_token
       /\ ReferenceCached

====
